---- MODULE Spec2Model ----
(***************************************************************************)
(* Model of the FTE report pipeline of the Faculty FTE Report Generator    *)
(* (src/web_functions.py, src/app.py).                                     *)
(*                                                                         *)
(* Text is modelled as sequences of one-character strings so that slicing, *)
(* upper-casing, regular-expression extraction, currency formatting and    *)
(* re-parsing are computed character by character.  Floating point values  *)
(* are modelled as exact decimals, stored as integers in thousandths       *)
(* (1.406 is 1406); a dataframe cell is a tagged record: a number, a text  *)
(* or the missing value NaN.                                               *)
(***************************************************************************)
EXTENDS Integers, Sequences, FiniteSets, TLC

(***************************************************************************)
(* Bounds of the model.                                                    *)
(***************************************************************************)
MaxRows == 2

(***************************************************************************)
(* Program constants.                                                      *)
(***************************************************************************)
base_fte_value == 1926
TopN == 10

(***************************************************************************)
(* Cells.                                                                  *)
(***************************************************************************)
Num(x) == [k |-> "num", n |-> x, s |-> <<>>]
Txt(t) == [k |-> "str", n |-> 0, s |-> t]
NaN == [k |-> "nan", n |-> 0, s |-> <<>>]
None == [k |-> "none", n |-> 0, s |-> <<>>]
Blank == Txt(<<>>)

notna(c) == c.k # "nan" /\ c.k # "none"

(***************************************************************************)
(* Characters, in code point order.                                        *)
(***************************************************************************)
Alphabet ==
  << "$", "%", ",", "-", ".",
     "0", "1", "2", "3", "4", "5", "6", "7", "8", "9",
     "A", "B", "C", "D", "E", "F", "G", "H", "I", "J", "K", "L", "M",
     "N", "O", "P", "Q", "R", "S", "T", "U", "V", "W", "X", "Y", "Z",
     "a", "b", "c", "d", "e", "f", "g", "h", "i", "j", "k", "l", "m",
     "n", "o", "p", "q", "r", "s", "t", "u", "v", "w", "x", "y", "z" >>

CharIndex ==
  [c \in {Alphabet[i] : i \in 1..Len(Alphabet)} |->
     CHOOSE i \in 1..Len(Alphabet) : Alphabet[i] = c]

Ord(c) == CharIndex[c]

IsUpperChar(c) == Ord(c) >= 16 /\ Ord(c) <= 41
IsLowerChar(c) == Ord(c) >= 42 /\ Ord(c) <= 67
IsDigitChar(c) == Ord(c) >= 6 /\ Ord(c) <= 15

DigitChar(d) == Alphabet[6 + d]
DigitVal(c) == Ord(c) - 6

\* str.upper()
Upper(t) == [i \in 1..Len(t) |->
               IF IsLowerChar(t[i]) THEN Alphabet[Ord(t[i]) - 26] ELSE t[i]]

\* Python's < on str
RECURSIVE StrLt(_, _)
StrLt(a, b) ==
  IF b = <<>> THEN FALSE
  ELSE IF a = <<>> THEN TRUE
  ELSE IF a[1] # b[1] THEN Ord(a[1]) < Ord(b[1])
  ELSE StrLt(Tail(a), Tail(b))

\* t[:n]
Prefix(t, n) == SubSeq(t, 1, IF Len(t) < n THEN Len(t) ELSE n)

(***************************************************************************)
(* Decimal arithmetic.                                                     *)
(***************************************************************************)
Abs(x) == IF x < 0 THEN -x ELSE x

\* num / den rounded to the nearest integer, ties to the even neighbour
\* (num >= 0, den > 0): the rounding of round(), numpy's round and the
\* 'f' format
RoundDiv(num, den) ==
  LET q == num \div den
      r == num % den
  IN  IF 2 * r < den THEN q
      ELSE IF 2 * r > den THEN q + 1
      ELSE IF q % 2 = 0 THEN q ELSE q + 1

\* round(v, d) of a value in thousandths, result in thousandths
Pow10(d) == IF d = 0 THEN 1 ELSE IF d = 1 THEN 10 ELSE IF d = 2 THEN 100 ELSE 1000

Round(v, d) ==
  LET unit == Pow10(3 - d)
      m == RoundDiv(Abs(v), unit) * unit
  IN  IF v < 0 THEN -m ELSE m

RECURSIVE Digits(_)
Digits(x) ==
  IF x < 10 THEN <<DigitChar(x)>>
  ELSE Append(Digits(x \div 10), DigitChar(x % 10))

\* exactly w digits, zero padded on the left
RECURSIVE PadDigits(_, _)
PadDigits(x, w) ==
  IF w = 0 THEN <<>>
  ELSE Append(PadDigits(x \div 10, w - 1), DigitChar(x % 10))

\* the ',' option of the format mini-language: groups of three from the right
RECURSIVE Group3(_)
Group3(ds) ==
  IF Len(ds) <= 3 THEN ds
  ELSE Group3(SubSeq(ds, 1, Len(ds) - 3)) \o <<",">> \o SubSeq(ds, Len(ds) - 2, Len(ds))

\* format(v, ".df") and format(v, ",.df") for d in 1..3
FormatFixed(v, d, comma) ==
  LET r == Round(v, d)
      a == Abs(r)
      ip == Digits(a \div 1000)
      fp == PadDigits((a % 1000) \div Pow10(3 - d), d)
      sign == IF r < 0 THEN <<"-">> ELSE <<>>
  IN  sign \o (IF comma THEN Group3(ip) ELSE ip) \o <<".">> \o fp

\* "${:,.3f}".format(v) and "${:,.2f}".format(v)
Currency(v, d) == <<"$">> \o FormatFixed(v, d, TRUE)

\* repr() of a float with at most three decimals: shortest form, at least
\* one decimal
RECURSIVE StripZeros(_)
StripZeros(ds) ==
  IF Len(ds) > 1 /\ ds[Len(ds)] = "0" THEN StripZeros(SubSeq(ds, 1, Len(ds) - 1))
  ELSE ds

ReprFloat(v) ==
  LET a == Abs(v)
      sign == IF v < 0 THEN <<"-">> ELSE <<>>
  IN  sign \o Digits(a \div 1000) \o <<".">> \o StripZeros(PadDigits(a % 1000, 3))

\* str.replace(ch, '')
RemoveChar(t, ch) == SelectSeq(t, LAMBDA c : c # ch)

\* float() of a decimal literal [-]digits[.digits], in thousandths
RECURSIVE DigitsVal(_)
DigitsVal(ds) ==
  IF ds = <<>> THEN 0
  ELSE 10 * DigitsVal(SubSeq(ds, 1, Len(ds) - 1)) + DigitVal(ds[Len(ds)])

DotPos(t) == IF \E i \in 1..Len(t) : t[i] = "."
             THEN CHOOSE i \in 1..Len(t) : t[i] = "."
             ELSE Len(t) + 1

ParseFloat(t) ==
  LET neg == t # <<>> /\ t[1] = "-"
      u == IF neg THEN Tail(t) ELSE t
      p == DotPos(u)
      ip == SubSeq(u, 1, p - 1)
      fp == SubSeq(u, p + 1, Len(u))
      f3 == Prefix(fp \o <<"0", "0", "0">>, 3)
      m == DigitsVal(ip) * 1000 + DigitsVal(f3)
  IN  IF neg THEN -m ELSE m

(***************************************************************************)
(* Regular-expression extraction of the course code from a section name.   *)
(***************************************************************************)
\* length of the longest run of upper-case letters / digits starting at t[i]
RECURSIVE UpperRun(_, _)
UpperRun(t, i) ==
  IF i <= Len(t) /\ IsUpperChar(t[i]) THEN 1 + UpperRun(t, i + 1) ELSE 0

RECURSIVE DigitRun(_, _)
DigitRun(t, i) ==
  IF i <= Len(t) /\ IsDigitChar(t[i]) THEN 1 + DigitRun(t, i + 1) ELSE 0

\* r'([A-Z]+-\d+)' matched at position i: the length of the match, 0 if none
MatchLoose(t, i) ==
  LET a == UpperRun(t, i)
      d == DigitRun(t, i + a + 1)
  IN  IF a >= 1 /\ i + a <= Len(t) /\ t[i + a] = "-" /\ d >= 1
      THEN a + 1 + d ELSE 0

\* r"([A-Z]{3}-\d{3})" matched at position i
MatchStrict(t, i) ==
  IF /\ i + 6 <= Len(t)
     /\ \A j \in 0..2 : IsUpperChar(t[i + j])
     /\ t[i + 3] = "-"
     /\ \A j \in 4..6 : IsDigitChar(t[i + j])
  THEN 7 ELSE 0

\* Series.str.extract(pattern): the first (leftmost) match, NaN when the
\* value is missing or nothing matches
FirstHit(hits) == CHOOSE h \in hits : \A g \in hits : h <= g

\* .str.extract(r"([A-Z]{3}-\d{3})")
ExtractStrict(c) ==
  IF c.k # "str" THEN NaN
  ELSE LET hits == {i \in 1..Len(c.s) : MatchStrict(c.s, i) > 0}
       IN  IF hits = {} THEN NaN
           ELSE Txt(SubSeq(c.s, FirstHit(hits),
                           FirstHit(hits) + MatchStrict(c.s, FirstHit(hits)) - 1))

\* .str.extract(r'([A-Z]+-\d+)')
ExtractLoose(c) ==
  IF c.k # "str" THEN NaN
  ELSE LET hits == {i \in 1..Len(c.s) : MatchLoose(c.s, i) > 0}
       IN  IF hits = {} THEN NaN
           ELSE Txt(SubSeq(c.s, FirstHit(hits),
                           FirstHit(hits) + MatchLoose(c.s, FirstHit(hits)) - 1))

(***************************************************************************)
(* Sorting: DataFrame.sort_values on several columns is a stable sort with *)
(* missing values last.                                                    *)
(***************************************************************************)
\* -1, 0, 1: order of two cells of a text column
CellCmp(a, b) ==
  IF a.k = "nan" /\ b.k = "nan" THEN 0
  ELSE IF a.k = "nan" THEN 1
  ELSE IF b.k = "nan" THEN -1
  ELSE IF a.k = "num" THEN (IF a.n < b.n THEN -1 ELSE IF a.n > b.n THEN 1 ELSE 0)
  ELSE IF StrLt(a.s, b.s) THEN -1
  ELSE IF StrLt(b.s, a.s) THEN 1
  ELSE 0

\* r1 sorts strictly before r2 on the columns cols (a sequence of field names)
RECURSIVE RowLt(_, _, _)
RowLt(r1, r2, cols) ==
  IF cols = <<>> THEN FALSE
  ELSE LET c == CellCmp(r1[Head(cols)], r2[Head(cols)])
       IN  IF c < 0 THEN TRUE
           ELSE IF c > 0 THEN FALSE
           ELSE RowLt(r1, r2, Tail(cols))

\* insert r after every row that does not sort strictly after it
RECURSIVE InsertSorted(_, _, _)
InsertSorted(rows, r, cols) ==
  IF rows = <<>> THEN <<r>>
  ELSE IF RowLt(r, Head(rows), cols) THEN <<r>> \o rows
  ELSE <<Head(rows)>> \o InsertSorted(Tail(rows), r, cols)

RECURSIVE sort_values(_, _)
sort_values(rows, cols) ==
  IF rows = <<>> THEN <<>>
  ELSE InsertSorted(sort_values(SubSeq(rows, 1, Len(rows) - 1), cols),
                    rows[Len(rows)], cols)

(***************************************************************************)
(* Input universe: the files a session can be given.                       *)
(***************************************************************************)
ABC101_01 == <<"A", "B", "C", "-", "1", "0", "1", "-", "0", "1">>
ABC101_02 == <<"A", "B", "C", "-", "1", "0", "1", "-", "0", "2">>
ABC101_03 == <<"A", "B", "C", "-", "1", "0", "1", "-", "0", "3">>
XYZ200_01 == <<"X", "Y", "Z", "-", "2", "0", "0", "-", "0", "1">>
ABC1010_02 == <<"A", "B", "C", "-", "1", "0", "1", "0", "-", "0", "2">>
LAB1 == <<"L", "A", "B", "1">>
TBA == <<"T", "B", "A">>
ABC101 == <<"A", "B", "C", "-", "1", "0", "1">>
abc101 == <<"a", "b", "c", "-", "1", "0", "1">>
XYZ200 == <<"X", "Y", "Z", "-", "2", "0", "0">>
SCI == <<"S", "C", "I">>
sci == <<"s", "c", "i">>
ART == <<"A", "R", "T">>
Smith == <<"S", "m", "i", "t", "h">>
Jones == <<"J", "o", "n", "e", "s">>

\* a whole number as a cell (values are kept in thousandths)
Whole(x) == Num(1000 * x)

\* a row of a file without 'Course Code' column: the cell is None
FileRow(div, sec, fac, method, cap, cnt) ==
  [div |-> Txt(div), sec |-> Txt(sec), fac |-> Txt(fac),
   method |-> Txt(method), times |-> Txt(<<"M", "W">>),
   cap |-> cap, cnt |-> cnt, course |-> None]

\* a row of a file that comes with its own 'Course Code' column
CodedRow(div, sec, course, fac, method, cap, cnt) ==
  [div |-> Txt(div), sec |-> sec, fac |-> Txt(fac),
   method |-> Txt(method), times |-> Txt(<<"M", "W">>),
   cap |-> cap, cnt |-> cnt, course |-> Txt(course)]

\* rows of the uploaded deanDailyCsar file: a section, the same section
\* co-taught and filed under a division in lower case, a section of zero
\* capacity whose course number is followed by a fourth digit, a section
\* without FTE count, a second course, a section name without course code
FileRows ==
  { FileRow(SCI, ABC101_01, Smith, <<"L">>, Whole(30), Whole(15)),
    FileRow(sci, ABC101_01, Jones, <<"L">>, Whole(30), Whole(15)),
    FileRow(SCI, ABC1010_02, Jones, <<"O">>, Whole(0), Whole(12)),
    FileRow(SCI, ABC101_03, Smith, <<"L">>, Whole(20), NaN),
    FileRow(SCI, XYZ200_01, Smith, <<"L">>, Whole(20), Whole(10)),
    FileRow(ART, LAB1, Jones, <<"O">>, Whole(25), Whole(0)) }

\* rows of a file with 'Course Code' column: a row without section name, a
\* row whose FTE count is not a number
CodedRows ==
  { CodedRow(SCI, NaN, ABC101, Smith, <<"L">>, Whole(30), Whole(15)),
    CodedRow(SCI, Txt(ABC101_02), ABC101, Jones, <<"L">>, Whole(20), Txt(TBA)) }

RECURSIVE SeqsUpTo(_, _)
SeqsUpTo(S, n) ==
  IF n = 0 THEN {<<>>}
  ELSE LET shorter == SeqsUpTo(S, n - 1)
       IN  shorter \cup {Append(q, x) : q \in {p \in shorter : Len(p) = n - 1}, x \in S}

Files == (SeqsUpTo(FileRows, MaxRows) \cup SeqsUpTo(CodedRows, MaxRows)) \ {<<>>}

\* unique_deansDailyCsar_FTE.xlsx: section name and contact hours
RefFull == << [sec |-> Txt(ABC101_01), hours |-> Whole(3)],
              [sec |-> Txt(XYZ200_01), hours |-> Whole(4)] >>
\* two sections of one course, the hours of the second not a number
RefDup == << [sec |-> Txt(ABC101_01), hours |-> Whole(2)],
             [sec |-> Txt(ABC101_02), hours |-> Txt(TBA)] >>
RefFiles == {RefFull, RefDup}

\* FTE_Tier.xlsx: 'Prefix/Course ID' and 'New Sector'
TierRow(p, m) == [prefix |-> p, new_sector |-> m]
TierA == << TierRow(Txt(<<"A", "B", "C">>), Whole(74)) >>
TierB == << TierRow(NaN, Whole(50)), TierRow(Txt(<<"X", "Y", "Z">>), Whole(10)) >>
TierFiles == {TierA, TierB}

(***************************************************************************)
(* Record Merger: the upload block of app.py.                              *)
(***************************************************************************)
IsDecimalText(t) ==
  /\ t # <<>>
  /\ \A i \in 1..Len(t) : IsDigitChar(t[i]) \/ t[i] = "."
  /\ Cardinality({i \in 1..Len(t) : t[i] = "."}) <= 1
  /\ \E i \in 1..Len(t) : IsDigitChar(t[i])

\* pd.to_numeric(column, errors='coerce') on one cell
to_numeric(c) ==
  IF c.k = "num" THEN c
  ELSE IF c.k = "str" /\ IsDecimalText(c.s) THEN Num(ParseFloat(c.s))
  ELSE NaN

Merged(l, course, hours) ==
  [div |-> l.div, sec |-> l.sec, fac |-> l.fac, method |-> l.method,
   times |-> l.times, cap |-> l.cap, cnt |-> l.cnt,
   course |-> course, hours |-> hours, tfte |-> NaN]

\* pd.merge(left, right[["Course Code", "Contact Hours"]], how='left',
\* on='Course Code'): one output row per matching right row, one row with
\* missing hours when nothing matches; missing keys match each other
\* if "Course Code" not in file_in.columns: derive it from 'Sec Name'
CourseCodeOf(l) == IF l.course = None THEN ExtractStrict(l.sec) ELSE l.course

RECURSIVE merge(_, _)
merge(left, right) ==
  IF left = <<>> THEN <<>>
  ELSE LET l == Head(left)
           course == CourseCodeOf(l)
           hit == SelectSeq(right, LAMBDA r : ExtractStrict(r.sec) = course)
           rows == IF hit = <<>> THEN << Merged(l, course, NaN) >>
                   ELSE [i \in 1..Len(hit) |-> Merged(l, course, hit[i].hours)]
       IN  rows \o merge(Tail(left), right)

\* TotalFTE with 0 in place of a missing result
TotalFTE_ZeroForMissing(hours, cnt) ==
  IF hours.k = "num" /\ cnt.k = "num"
  THEN Num(RoundDiv(hours.n * cnt.n, 32 * 1000))
  ELSE Num(0)

\* ((Contact Hours * 16 * FTE Count) / 512).round(3); 16 / 512 is 1 / 32
TotalFTE(hours, cnt) ==
  IF hours.k = "num" /\ cnt.k = "num"
  THEN Num(RoundDiv(hours.n * cnt.n, 32 * 1000))
  ELSE NaN

WithTotalFTE(r) ==
  LET h == to_numeric(r.hours)
      c == to_numeric(r.cnt)
  IN  [r EXCEPT !.hours = h, !.cnt = c, !.tfte = TotalFTE(h, c)]

MergeUpload(file, ref) ==
  LET m == merge(file, ref)
      t == [i \in 1..Len(m) |-> WithTotalFTE(m[i])]
  IN  sort_values(t, <<"div", "sec", "fac">>)

(***************************************************************************)
(* State.                                                                  *)
(***************************************************************************)
VARIABLES
  file_uploaded,  \* st.session_state.file_uploaded
  file_in,        \* the uploaded enrollment file
  fte_file_in,    \* the contact-hours reference file
  fte_tier,       \* the tier table
  dean_df,        \* the merged dataset
  choice,         \* the page that ran last
  key,            \* the key it was run with
  ret,            \* what the entry point returned: table (or None), totals
  report_df,      \* the table the page displays
  plot_df         \* the table the page plots

vars == << file_uploaded, file_in, fte_file_in, fte_tier, dean_df,
           choice, key, ret, report_df, plot_df >>

NoRet == [none |-> TRUE, raised |-> FALSE, df |-> <<>>, orig |-> 0, gen |-> 0]

\* the call ended in an exception
Raised == [none |-> TRUE, raised |-> TRUE, df |-> <<>>, orig |-> 0, gen |-> 0]

Init ==
  /\ file_uploaded = FALSE
  /\ file_in = <<>>
  /\ fte_file_in = <<>>
  /\ fte_tier = <<>>
  /\ dean_df = <<>>
  /\ choice = "Upload"
  /\ key = <<>>
  /\ ret = NoRet
  /\ report_df = <<>>
  /\ plot_df = <<>>

Upload(file, ref, tier) ==
  /\ ~file_uploaded
  /\ file_uploaded' = TRUE
  /\ file_in' = file
  /\ fte_file_in' = ref
  /\ fte_tier' = tier
  /\ dean_df' = MergeUpload(file, ref)
  /\ choice' = "Upload"
  /\ key' = <<>>
  /\ ret' = NoRet
  /\ report_df' = <<>>
  /\ plot_df' = <<>>

Reset ==
  /\ file_uploaded
  /\ file_uploaded' = FALSE
  /\ file_in' = <<>>
  /\ fte_file_in' = <<>>
  /\ fte_tier' = <<>>
  /\ dean_df' = <<>>
  /\ choice' = "Upload"
  /\ key' = <<>>
  /\ ret' = NoRet
  /\ report_df' = <<>>
  /\ plot_df' = <<>>

(***************************************************************************)
(* FTE Aggregator, division view: fte_by_div_raw.                          *)
(***************************************************************************)
Percent == <<"%">>
TotalLabel == <<"T", "o", "t", "a", "l">>
DivisionTotalLabel ==
  <<"D", "I", "V", "I", "S", "I", "O", "N", " ", "T", "O", "T", "A", "L">>

\* file_in[file_in['Sec Divisions'] == div_code.upper()]
DivFilter(file, div_code) ==
  SelectSeq(file, LAMBDA r : r.div = Txt(Upper(div_code)))

\* fte_lookup_get answering a miss with the multiplier of a tier row without
\* key
fte_lookup_get_NullKeyOnMiss(tier, k) ==
  LET idx == {i \in 1..Len(tier) : notna(tier[i].prefix) /\ tier[i].prefix = Txt(k)}
      nul == {i \in 1..Len(tier) : ~notna(tier[i].prefix)}
  IN  IF idx # {} THEN tier[CHOOSE i \in idx : \A j \in idx : j <= i].new_sector.n
      ELSE IF nul # {} THEN tier[CHOOSE i \in nul : \A j \in nul : j <= i].new_sector.n
      ELSE 0

\* fte_lookup.get(k, 0) on the dict built from the tier rows whose key is
\* not null; a later row with the same key replaces an earlier one
fte_lookup_get(tier, k) ==
  LET idx == {i \in 1..Len(tier) : notna(tier[i].prefix) /\ tier[i].prefix = Txt(k)}
  IN  IF idx = {} THEN 0
      ELSE tier[CHOOSE i \in idx : \A j \in idx : j <= i].new_sector.n

\* row['Sec Name'][:3] if pd.notna(row['Sec Name']) else ""
SecPrefix(row) == IF notna(row.sec) THEN Prefix(row.sec.s, 3) ELSE <<>>

\* float(row['Total FTE']) if pd.notna(row['Total FTE']) else 0
total_fte_of(row) == IF notna(row.tfte) THEN row.tfte.n ELSE 0

\* total_fte * (new_sector_value + base_fte_value); the multipliers of the
\* tier files are whole numbers
adjusted_fte_of(row, tier, sec) ==
  total_fte_of(row) * ((fte_lookup_get(tier, sec) \div 1000) + base_fte_value)

\* round((float(row['FTE Count']) / float(row['Capacity'])) * 100, 2), or ''
enrollment_per_of(row) ==
  IF notna(row.cap) /\ notna(row.cnt) /\ row.cap.n > 0
  THEN Num(10 * RoundDiv(row.cnt.n * 10000, row.cap.n))
  ELSE Blank

\* f"{enrollment_per}%" if enrollment_per != '' else ''
DivEnrollmentText(e) ==
  IF e # Blank THEN Txt(ReprFloat(e.n) \o Percent) ELSE Blank

TotalRow(course_total_fte) ==
  [Division |-> Blank, CourseCode |-> Txt(TotalLabel), SecName |-> Blank,
   Method |-> Blank, Times |-> Blank, Capacity |-> Blank, FTECount |-> Blank,
   Faculty |-> Blank, TotalFTE |-> Blank, EnrollmentPer |-> Blank,
   GeneratedFTE |-> Num(course_total_fte)]

\* Python's != between a course code and current_course: NaN differs from
\* everything, itself included
PyNe(a, b) == a.k = "nan" \/ b.k = "nan" \/ a # b

\* DivSectionRow with the course code on every section row
DivSectionRow_CourseOnEveryRow(row, course, st, div_code) ==
  [Division |-> IF st.first_row THEN Txt(div_code) ELSE Blank,
   CourseCode |-> course,
   SecName |-> row.sec,
   Method |-> row.method,
   Times |-> row.times,
   Capacity |-> row.cap,
   FTECount |-> row.cnt,
   Faculty |-> row.fac,
   TotalFTE |-> Num(total_fte_of(row)),
   EnrollmentPer |-> DivEnrollmentText(enrollment_per_of(row)),
   GeneratedFTE |-> Txt(FormatFixed(adjusted_fte_of(row, st.tier, SecPrefix(row)), 2, FALSE))]

DivSectionRow(row, course, st, div_code) ==
  [Division |-> IF st.first_row THEN Txt(div_code) ELSE Blank,
   CourseCode |-> IF PyNe(course, st.current_course) THEN course ELSE Blank,
   SecName |-> row.sec,
   Method |-> row.method,
   Times |-> row.times,
   Capacity |-> row.cap,
   FTECount |-> row.cnt,
   Faculty |-> row.fac,
   TotalFTE |-> Num(total_fte_of(row)),
   EnrollmentPer |-> DivEnrollmentText(enrollment_per_of(row)),
   GeneratedFTE |-> Txt(FormatFixed(adjusted_fte_of(row, st.tier, SecPrefix(row)), 2, FALSE))]

\* the subtotal emitted when the course changes and a group is open
DivBoundary(st, course) ==
  IF PyNe(course, st.current_course) /\ st.current_course # None
  THEN [st EXCEPT !.output_rows = Append(@, TotalRow(st.course_total_fte)),
                  !.grand_total_generated_fte = @ + st.course_total_fte,
                  !.course_total_fte = 0]
  ELSE st
\* DivStep with the original total accumulated only at a course boundary
DivStep_OrigAtBoundary(st, row, div_code) ==
  LET course == row.course
      adjusted_fte == adjusted_fte_of(row, st.tier, SecPrefix(row))
      b == DivBoundary(st, course)
  IN  [b EXCEPT !.output_rows = Append(@, DivSectionRow(row, course, st, div_code)),
                !.grand_total_original_fte =
                    IF PyNe(course, st.current_course) THEN @ + total_fte_of(row) ELSE @,
                !.course_total_fte = @ + adjusted_fte,
                !.current_course = course,
                !.first_row = FALSE]

\* one iteration of the loop over div_data
DivStep(st, row, div_code) ==
  LET course == row.course
      adjusted_fte == adjusted_fte_of(row, st.tier, SecPrefix(row))
      b == DivBoundary(st, course)
  IN  [b EXCEPT !.output_rows = Append(@, DivSectionRow(row, course, st, div_code)),
                !.grand_total_original_fte = @ + total_fte_of(row),
                !.course_total_fte = @ + adjusted_fte,
                !.current_course = course,
                !.first_row = FALSE]

RECURSIVE DivLoop(_, _, _)
DivLoop(st, rows, div_code) ==
  IF rows = <<>> THEN st
  ELSE DivLoop(DivStep(st, Head(rows), div_code), Tail(rows), div_code)
\* DivFlush with the final subtotal left out of the grand total
DivFlush_NoGrandAdd(st) ==
  IF st.current_course # None
  THEN [st EXCEPT !.output_rows = Append(@, TotalRow(st.course_total_fte))]
  ELSE st

\* the subtotal of the last open group, after the loop
DivFlush(st) ==
  IF st.current_course # None
  THEN [st EXCEPT !.output_rows = Append(@, TotalRow(st.course_total_fte)),
                  !.grand_total_generated_fte = @ + st.course_total_fte]
  ELSE st

\* div_data with 'Course Code' re-derived from 'Sec Name', sorted
DivData(file, div_code) ==
  LET f == DivFilter(file, div_code)
      d == [i \in 1..Len(f) |-> [f[i] EXCEPT !.course = ExtractLoose(f[i].sec)]]
  IN  sort_values(d, <<"course", "sec">>)

\* a 'Sec Name' column without any text is read as a column of floats, and
\* the .str accessor of such a column is an AttributeError
NoStrAccessor(file) == \A i \in 1..Len(file) : file[i].sec.k # "str"
\* FileInAfterDiv had the filter result been a view: the re-derived course
\* codes are written to the rows of file_in
FileInAfterDiv_InPlace(file, div_code) ==
  [i \in 1..Len(file) |->
     IF file[i].div = Txt(Upper(div_code))
     THEN [file[i] EXCEPT !.course = ExtractLoose(file[i].sec)]
     ELSE file[i]]

\* file_in after the call: div_data is a copy (.copy()), the 'Course Code'
\* column and the sort are applied to the copy
FileInAfterDiv(file, div_code) == file

fte_by_div_raw(file, tier, div_code0) ==
  LET div_code == Upper(div_code0)
      div_data == DivData(file, div_code)
      st0 == [output_rows |-> <<>>, current_course |-> None,
              course_total_fte |-> 0, first_row |-> TRUE,
              grand_total_original_fte |-> 0, grand_total_generated_fte |-> 0,
              tier |-> tier]
      st == DivFlush(DivLoop(st0, div_data, div_code))
  IN  IF div_data = <<>> THEN NoRet
      ELSE IF NoStrAccessor(file) THEN Raised
      ELSE [none |-> FALSE, raised |-> FALSE, df |-> st.output_rows,
            orig |-> st.grand_total_original_fte,
            gen |-> st.grand_total_generated_fte]

(***************************************************************************)
(* Report Formatter: format_fte_output.                                    *)
(***************************************************************************)
\* isinstance(row['Generated FTE'], (float, int)) -> "${:,.3f}"
FormatRow(row) ==
  IF row.GeneratedFTE.k = "num"
  THEN [row EXCEPT !.GeneratedFTE = Txt(Currency(row.GeneratedFTE.n, 3))]
  ELSE row
\* DivisionTotalRow with the three decimals of the other rows
DivisionTotalRow_ThreeDecimals(generated_fte_total) ==
  [Division |-> Blank, CourseCode |-> Txt(DivisionTotalLabel), SecName |-> Blank,
   Method |-> Blank, Times |-> Blank, Capacity |-> Blank, FTECount |-> Blank,
   Faculty |-> Blank, TotalFTE |-> Blank, EnrollmentPer |-> Blank,
   GeneratedFTE |-> Txt(Currency(generated_fte_total, 3))]

DivisionTotalRow(generated_fte_total) ==
  [Division |-> Blank, CourseCode |-> Txt(DivisionTotalLabel), SecName |-> Blank,
   Method |-> Blank, Times |-> Blank, Capacity |-> Blank, FTECount |-> Blank,
   Faculty |-> Blank, TotalFTE |-> Blank, EnrollmentPer |-> Blank,
   GeneratedFTE |-> Txt(Currency(generated_fte_total, 2))]

\* raw_df after the call: every row is formatted on a copy (row.copy())
RawDfAfterFormat(raw_df) == raw_df

format_fte_output(raw_df, original_fte_total, generated_fte_total) ==
  Append([i \in 1..Len(raw_df) |-> FormatRow(raw_df[i])],
         DivisionTotalRow(generated_fte_total))

(***************************************************************************)
(* "FTE by Division" page of app.py.                                       *)
(***************************************************************************)
\* .str.replace('$', '').str.replace(',', '').astype(float)
ParseCurrency(c) == Num(ParseFloat(RemoveChar(RemoveChar(c.s, "$"), ",")))

IsSectionRow(r) ==
  r.CourseCode # Txt(TotalLabel) /\ r.CourseCode # Txt(DivisionTotalLabel)

\* the columns from the third on, 'Generated FTE' converted to a number
PlotRow(r) ==
  [SecName |-> r.SecName, Method |-> r.Method, Times |-> r.Times,
   Capacity |-> r.Capacity, FTECount |-> r.FTECount, Faculty |-> r.Faculty,
   TotalFTE |-> r.TotalFTE, EnrollmentPer |-> r.EnrollmentPer,
   GeneratedFTE |-> ParseCurrency(r.GeneratedFTE)]

\* sort_values(by='Generated FTE', ascending=False)
RECURSIVE InsertDesc(_, _)
InsertDesc(rows, r) ==
  IF rows = <<>> THEN <<r>>
  ELSE IF r.GeneratedFTE.n > Head(rows).GeneratedFTE.n THEN <<r>> \o rows
  ELSE <<Head(rows)>> \o InsertDesc(Tail(rows), r)

RECURSIVE SortDesc(_)
SortDesc(rows) ==
  IF rows = <<>> THEN <<>>
  ELSE InsertDesc(SortDesc(SubSeq(rows, 1, Len(rows) - 1)), rows[Len(rows)])

DivisionPlot(report) ==
  LET secs == SelectSeq(report, IsSectionRow)
      p == SortDesc([i \in 1..Len(secs) |-> PlotRow(secs[i])])
  IN  IF Len(p) > TopN THEN SubSeq(p, 1, TopN) ELSE p

DivKeys == {SCI, sci, ART}

DivisionPage(division_input) ==
  /\ file_uploaded
  /\ LET r == fte_by_div_raw(dean_df, fte_tier, division_input)
         rep == IF r.none THEN <<>> ELSE format_fte_output(r.df, r.orig, r.gen)
     IN  /\ ret' = [r EXCEPT !.df = RawDfAfterFormat(@)]
         /\ report_df' = rep
         /\ plot_df' = IF r.none THEN <<>> ELSE DivisionPlot(rep)
  /\ choice' = "FTE by Division"
  /\ key' = division_input
  /\ dean_df' = FileInAfterDiv(dean_df, division_input)
  /\ UNCHANGED << file_uploaded, file_in, fte_file_in, fte_tier >>

(***************************************************************************)
(* FTE Aggregator, course view: calculate_fte_by_course.                   *)
(***************************************************************************)
CourseTotalLabel == <<"C", "O", "U", "R", "S", "E", " ", "T", "O", "T", "A", "L">>

\* drop_duplicates keeping the last row of each section name
drop_duplicates_KeepLast(rows) ==
  LET keep == {i \in 1..Len(rows) :
                 \A j \in (i + 1)..Len(rows) : rows[j].sec # rows[i].sec}
      RECURSIVE Pick(_)
      Pick(i) == IF i > Len(rows) THEN <<>>
                 ELSE (IF i \in keep THEN <<rows[i]>> ELSE <<>>) \o Pick(i + 1)
  IN  Pick(1)

\* DataFrame.drop_duplicates(subset='Sec Name'): the first row of each
\* section name is kept
drop_duplicates(rows) ==
  LET keep == {i \in 1..Len(rows) : \A j \in 1..(i - 1) : rows[j].sec # rows[i].sec}
      RECURSIVE Pick(_)
      Pick(i) == IF i > Len(rows) THEN <<>>
                 ELSE (IF i \in keep THEN <<rows[i]>> ELSE <<>>) \o Pick(i + 1)
  IN  Pick(1)

\* df[df['Course Code'] == course_code.upper()], de-duplicated
CourseFiltered(df, course_code) ==
  drop_duplicates(SelectSeq(df, LAMBDA r : r.course = Txt(Upper(course_code))))

\* f"{enrollment_per}%" if enrollment_per else '': a percentage of 0.0 is
\* falsy and shows as ''
CourseEnrollmentText(e) ==
  IF e # Blank /\ e.n # 0 THEN Txt(ReprFloat(e.n) \o Percent) ELSE Blank

\* total_fte * (new_sector + base_fte)
generated_fte_of(row, tier) ==
  total_fte_of(row) * ((fte_lookup_get(tier, Prefix(row.sec.s, 3)) \div 1000) + base_fte_value)

CourseSectionRow(row, tier) ==
  [SecName |-> row.sec,
   Method |-> row.method,
   Faculty |-> row.fac,
   Times |-> row.times,
   Capacity |-> row.cap,
   FTECount |-> row.cnt,
   TotalFTE |-> Num(total_fte_of(row)),
   EnrollmentPer |-> CourseEnrollmentText(enrollment_per_of(row)),
   GeneratedFTE |-> Num(generated_fte_of(row, tier))]

CourseStep(st, row, tier) ==
  [st EXCEPT !.output_rows = Append(@, CourseSectionRow(row, tier)),
             !.total_original_fte = @ + total_fte_of(row),
             !.total_generated_fte = @ + generated_fte_of(row, tier)]

RECURSIVE CourseLoop(_, _, _)
CourseLoop(st, rows, tier) ==
  IF rows = <<>> THEN st
  ELSE CourseLoop(CourseStep(st, Head(rows), tier), Tail(rows), tier)

CourseTotalRow(total_original_fte, total_generated_fte) ==
  [SecName |-> Txt(CourseTotalLabel), Method |-> Blank, Faculty |-> Blank,
   Times |-> Blank, Capacity |-> Blank, FTECount |-> Blank,
   TotalFTE |-> Num(total_original_fte), EnrollmentPer |-> Blank,
   GeneratedFTE |-> Num(total_generated_fte)]

\* df_out['Generated FTE'].apply("${:,.2f}".format on numbers)
CourseFormatRow(row) ==
  IF row.GeneratedFTE.k = "num"
  THEN [row EXCEPT !.GeneratedFTE = Txt(Currency(row.GeneratedFTE.n, 2))]
  ELSE row

\* df after the call: filtered is a copy (.copy()) and drop_duplicates
\* returns a new frame
DfAfterCourse(df, course_code) == df

calculate_fte_by_course(df, tier, course_code) ==
  LET filtered == CourseFiltered(df, course_code)
      st0 == [output_rows |-> <<>>, total_original_fte |-> 0, total_generated_fte |-> 0]
      st == CourseLoop(st0, filtered, tier)
      rows == Append(st.output_rows,
                     CourseTotalRow(st.total_original_fte, st.total_generated_fte))
  IN  IF filtered = <<>> THEN NoRet
      \* row['Sec Name'][:3] on a missing section name is a TypeError
      ELSE IF \E i \in 1..Len(filtered) : ~notna(filtered[i].sec) THEN Raised
      ELSE [none |-> FALSE, raised |-> FALSE,
            df |-> [i \in 1..Len(rows) |-> CourseFormatRow(rows[i])],
            orig |-> st.total_original_fte,
            gen |-> st.total_generated_fte]

\* "FTE per Course" page of app.py
CoursePlotRow(r) == [r EXCEPT !.GeneratedFTE = ParseCurrency(r.GeneratedFTE)]

CoursePlot(df_result) ==
  LET secs == SelectSeq(df_result, LAMBDA r : r.SecName # Txt(CourseTotalLabel))
  IN  [i \in 1..Len(secs) |-> CoursePlotRow(secs[i])]

CourseKeys == {ABC101, abc101, XYZ200}

CoursePage(course_name) ==
  /\ file_uploaded
  /\ LET r == calculate_fte_by_course(dean_df, fte_tier, course_name)
     IN  /\ ret' = r
         /\ report_df' = r.df
         /\ plot_df' = IF r.none THEN <<>> ELSE CoursePlot(r.df)
  /\ choice' = "FTE per Course"
  /\ key' = course_name
  /\ dean_df' = DfAfterCourse(dean_df, course_name)
  /\ UNCHANGED << file_uploaded, file_in, fte_file_in, fte_tier >>

(***************************************************************************)
(* Per-row enrollment helper and the "Course Enrollment Percentage" page.  *)
(***************************************************************************)
\* float(x): a number or NaN converts, '' raises ValueError
Floatable(c) == c.k = "num" \/ c.k = "nan" \/ (c.k = "str" /\ IsDecimalText(c.s))
\* calc_enrollment without the zero-capacity test: the division by zero is
\* caught and reported as "N/A%"
calc_enrollment_NoZeroTest(row) ==
  IF ~Floatable(row.cap) \/ ~Floatable(row.cnt) THEN <<"N", "/", "A", "%">>
  ELSE LET cap == to_numeric(row.cap)
           fte == to_numeric(row.cnt)
       IN  IF cap.k = "num" /\ cap.n = 0 THEN <<"N", "/", "A", "%">>
           ELSE IF cap.k = "nan" \/ fte.k = "nan" THEN <<"n", "a", "n", "%">>
           ELSE FormatFixed(10 * RoundDiv(fte.n * 10000, cap.n), 2, FALSE) \o Percent

calc_enrollment(row) ==
  IF ~Floatable(row.cap) \/ ~Floatable(row.cnt) THEN <<"N", "/", "A", "%">>
  ELSE LET cap == to_numeric(row.cap)
           fte == to_numeric(row.cnt)
       IN  IF cap.k = "num" /\ cap.n = 0 THEN <<"0", "%">>
           ELSE IF cap.k = "nan" \/ fte.k = "nan" THEN <<"n", "a", "n", "%">>
           ELSE FormatFixed(10 * RoundDiv(fte.n * 10000, cap.n), 2, FALSE) \o Percent

EnrollmentRow(r) ==
  [div |-> r.div, sec |-> r.sec, fac |-> r.fac, method |-> r.method,
   times |-> r.times, cap |-> r.cap, cnt |-> r.cnt, course |-> r.course,
   hours |-> r.hours, tfte |-> r.tfte,
   EnrollmentPercentage |-> Txt(calc_enrollment(r))]

\* dean_df['Course Code'].dropna().unique()
valid_courses(df) == {df[i].course.s : i \in {j \in 1..Len(df) : notna(df[j].course)}}

EnrollmentPage(course) ==
  /\ file_uploaded
  /\ course \in valid_courses(dean_df)
  /\ LET filtered == drop_duplicates(SelectSeq(dean_df, LAMBDA r : r.course = Txt(course)))
     IN  report_df' = [i \in 1..Len(filtered) |-> EnrollmentRow(filtered[i])]
  /\ ret' = NoRet
  /\ plot_df' = <<>>
  /\ choice' = "Course Enrollment Percentage"
  /\ key' = course
  /\ UNCHANGED << file_uploaded, file_in, fte_file_in, fte_tier, dean_df >>

(***************************************************************************)
(* FTE Aggregator, instructor view: generate_faculty_fte_report.  The      *)
(* helpers of the options4 module are modelled from their specification.   *)
(***************************************************************************)
FacultyTotalLabel == <<"T", "O", "T", "A", "L">>

\* opfour.remove_duplicate_sections
remove_duplicate_sections(rows) == drop_duplicates(rows)

\* opfour.calculate_enrollment_percentage, for one row
calculate_enrollment_percentage(row) == Txt(calc_enrollment(row))

\* opfour.generate_fte, for one row: missing Total FTE stays missing
generate_fte(row, tier) ==
  IF notna(row.tfte)
  THEN Num(row.tfte.n * ((fte_lookup_get(tier, SecPrefix(row)) \div 1000) + base_fte_value))
  ELSE NaN

\* Series.sum(): missing values are skipped
RECURSIVE SeriesSum(_)
SeriesSum(cells) ==
  IF cells = <<>> THEN 0
  ELSE (IF Head(cells).k = "num" THEN Head(cells).n ELSE 0) + SeriesSum(Tail(cells))

\* f"${x:,.2f}"
FacultyCurrency(c) ==
  IF c.k = "num" THEN Txt(Currency(c.n, 2)) ELSE Txt(<<"$", "n", "a", "n">>)

FacultyRow(r, tier) ==
  [div |-> r.div, sec |-> r.sec, fac |-> r.fac, method |-> r.method,
   times |-> r.times, cap |-> r.cap, cnt |-> r.cnt, course |-> r.course,
   hours |-> r.hours, tfte |-> r.tfte,
   EnrollmentPer |-> calculate_enrollment_percentage(r),
   GeneratedFTE |-> generate_fte(r, tier)]

FacultySummaryRow(total_original, total_generated) ==
  [div |-> NaN, sec |-> Txt(FacultyTotalLabel), fac |-> NaN, method |-> NaN,
   times |-> NaN, cap |-> NaN, cnt |-> NaN, course |-> NaN, hours |-> NaN,
   tfte |-> Num(total_original), EnrollmentPer |-> NaN,
   GeneratedFTE |-> Txt(Currency(total_generated, 2))]

generate_faculty_fte_report(df, tier, faculty_name) ==
  LET f == remove_duplicate_sections(SelectSeq(df, LAMBDA r : r.fac = Txt(faculty_name)))
      faculty_df == [i \in 1..Len(f) |-> FacultyRow(f[i], tier)]
      total_original == SeriesSum([i \in 1..Len(f) |-> faculty_df[i].tfte])
      total_generated == SeriesSum([i \in 1..Len(f) |-> faculty_df[i].GeneratedFTE])
      shown == [i \in 1..Len(f) |->
                  [faculty_df[i] EXCEPT !.GeneratedFTE = FacultyCurrency(@)]]
  IN  [none |-> FALSE, raised |-> FALSE,
       df |-> Append(shown, FacultySummaryRow(total_original, total_generated)),
       orig |-> total_original, gen |-> total_generated]

\* DataFrame.fillna("")
fillna(row) == [f \in DOMAIN row |-> IF row[f].k = "nan" THEN Blank ELSE row[f]]

FacultyKeys == {Smith, Jones}

\* "FTE per Instructor" page of app.py
FacultyPage(instructor) ==
  /\ file_uploaded
  /\ LET r == generate_faculty_fte_report(dean_df, fte_tier, instructor)
         rep == [i \in 1..Len(r.df) |-> fillna(r.df[i])]
     IN  /\ ret' = r
         /\ report_df' = rep
         /\ plot_df' = SelectSeq(rep, LAMBDA x : x.sec # Txt(FacultyTotalLabel))
  /\ choice' = "FTE per Instructor"
  /\ key' = instructor
  /\ UNCHANGED << file_uploaded, file_in, fte_file_in, fte_tier, dean_df >>

Next ==
  \/ \E file \in Files, ref \in RefFiles, tier \in TierFiles : Upload(file, ref, tier)
  \/ Reset
  \/ \E d \in DivKeys : DivisionPage(d)
  \/ \E c \in CourseKeys : CoursePage(c)
  \/ \E c \in CourseKeys : EnrollmentPage(c)
  \/ \E f \in FacultyKeys : FacultyPage(f)

Spec == Init /\ [][Next]_vars

(***************************************************************************)
(* Properties.                                                             *)
(***************************************************************************)
DivisionRan == choice = "FTE by Division"
CourseRan == choice = "FTE per Course"
FacultyRan == choice = "FTE per Instructor"
EnrollmentRan == choice = "Course Enrollment Percentage"

DivisionOk == DivisionRan /\ ~ret.none
CourseOk == CourseRan /\ ~ret.none

RECURSIVE SumCells(_)
SumCells(cells) ==
  IF cells = <<>> THEN 0 ELSE Head(cells).n + SumCells(Tail(cells))

\* the "Total" rows and the section rows of a division table, in order
Subtotals(df) == SelectSeq(df, LAMBDA r : r.CourseCode = Txt(TotalLabel))
Sections(df) == SelectSeq(df, IsSectionRow)

\* the sum of a column of totalFte values, a missing value counting as 0
RECURSIVE SumTotalFte(_)
SumTotalFte(rows) ==
  IF rows = <<>> THEN 0
  ELSE (IF Head(rows).tfte.k = "num" THEN Head(rows).tfte.n ELSE 0)
       + SumTotalFte(Tail(rows))

\* the rows the last division report was computed from, in report order, and
\* the numeric generated FTE of each
LastDivData == DivData(dean_df, Upper(key))
LastCourseData == CourseFiltered(dean_df, key)
GeneratedOf(row) == adjusted_fte_of(row, fte_tier, SecPrefix(row))

\* C1: in a division report the Generated FTE values of the emitted "Total"
\* rows add up to the returned generated total.
C1_SubtotalsSumToGrandTotal ==
  DivisionOk =>
    LET t == Subtotals(ret.df)
    IN  /\ \A i \in 1..Len(t) : t[i].GeneratedFTE.k = "num"
        /\ SumCells([i \in 1..Len(t) |-> t[i].GeneratedFTE]) = ret.gen

C1_Witness ==
  /\ DivisionOk
  /\ Len(Subtotals(ret.df)) >= 2
  /\ \A i \in 1..2 : Subtotals(ret.df)[i].GeneratedFTE.n > 0

\* C2: in the division and the course view the returned original total is
\* the sum of totalFte over the rows of the filtered set, a missing totalFte
\* counting as 0.
C2_OriginalTotalIsSum ==
  /\ DivisionOk => ret.orig = SumTotalFte(DivFilter(dean_df, Upper(key)))
  /\ CourseOk => ret.orig = SumTotalFte(LastCourseData)

C2_Witness ==
  /\ DivisionOk
  /\ ret.orig > 0
  /\ Len(LastDivData) >= 2
  /\ \E i \in 1..Len(LastDivData) : LastDivData[i].tfte.k = "nan"
  /\ \A i, j \in 1..Len(LastDivData) : LastDivData[i].course = LastDivData[j].course

\* C3: each of the three entry points, given a key that matches no row,
\* returns the "no data" signal (no table) and does not raise.
C3_NoDataSignal ==
  /\ (DivisionRan /\ DivFilter(dean_df, Upper(key)) = <<>>)
       => (ret.none /\ ~ret.raised)
  /\ (CourseRan /\ LastCourseData = <<>>)
       => (ret.none /\ ~ret.raised)
  /\ (FacultyRan /\ \A i \in 1..Len(dean_df) : dean_df[i].fac # Txt(key))
       => (ret.none /\ ~ret.raised)

\* C4: in the division and the course view a section whose totalFte is
\* missing counts as 0 in the totals and its section row shows a blank or
\* missing Total FTE, not 0.
IsAbsent(c) == c = Blank \/ c.k = "nan"

C4_MissingTotalFteStaysBlank ==
  /\ DivisionOk =>
       /\ ret.orig = SumTotalFte(LastDivData)
       /\ \A i \in 1..Len(LastDivData) :
            LastDivData[i].tfte.k = "nan" => IsAbsent(Sections(ret.df)[i].TotalFTE)
  /\ CourseOk =>
       /\ ret.orig = SumTotalFte(LastCourseData)
       /\ \A i \in 1..Len(LastCourseData) :
            LastCourseData[i].tfte.k = "nan" => IsAbsent(ret.df[i].TotalFTE)

\* C5 as stated: a section row of capacity 0 shows "0%" in the course view
\* and blank in the division view.
ZeroPercent == Txt(<<"0", "%">>)

C5_CourseViewZeroPercent ==
  /\ CourseOk =>
       \A i \in 1..Len(ret.df) :
         ret.df[i].Capacity = Num(0) => ret.df[i].EnrollmentPer = ZeroPercent
  /\ DivisionOk =>
       \A i \in 1..Len(ret.df) :
         ret.df[i].Capacity = Num(0) => ret.df[i].EnrollmentPer = Blank

\* C5 as amended: a section row of capacity 0 shows "0%" on the "Course
\* Enrollment Percentage" page, which uses the per-row helper, and blank in
\* both the division view and the course view.
C5_HelperZeroPercent ==
  /\ EnrollmentRan =>
       \A i \in 1..Len(report_df) :
         report_df[i].cap = Num(0) => report_df[i].EnrollmentPercentage = ZeroPercent
  /\ (CourseOk \/ DivisionOk) =>
       \A i \in 1..Len(ret.df) :
         ret.df[i].Capacity = Num(0) => ret.df[i].EnrollmentPer = Blank

C5_Witness ==
  /\ EnrollmentRan
  /\ \E i \in 1..Len(report_df) :
       /\ report_df[i].cap = Num(0)
       /\ report_df[i].cnt.k = "num"
       /\ report_df[i].cnt.n > 0

\* C6: after the division report is formatted, the Generated FTE of every
\* section row is the currency text of its value: "$", thousands separators,
\* three decimals.
C6_SectionRowsAreCurrency ==
  DivisionOk =>
    \A i \in 1..Len(LastDivData) :
      Sections(report_df)[i].GeneratedFTE = Txt(Currency(GeneratedOf(LastDivData[i]), 3))

\* C7: format_fte_output keeps the input rows in order and appends exactly
\* one row, the last, labelled "DIVISION TOTAL", all blank but for the
\* generated total as currency text with two decimals.
SameButGenerated(a, b) ==
  \A f \in DOMAIN a : f # "GeneratedFTE" => a[f] = b[f]

C7_DivisionTotalRowIsLast ==
  DivisionOk =>
    LET n == Len(ret.df)
    IN  /\ Len(report_df) = n + 1
        /\ \A i \in 1..n :
             /\ SameButGenerated(ret.df[i], report_df[i])
             /\ report_df[i].CourseCode # Txt(DivisionTotalLabel)
        /\ report_df[n + 1].CourseCode = Txt(DivisionTotalLabel)
        /\ report_df[n + 1].GeneratedFTE = Txt(<<"$">> \o FormatFixed(ret.gen, 2, TRUE))
        /\ \A f \in DOMAIN report_df[n + 1] :
             f \notin {"CourseCode", "GeneratedFTE"} => report_df[n + 1][f] = Blank

C7_Witness ==
  /\ DivisionOk
  /\ Len(report_df) >= 4
  /\ ret.gen % 10 # 0

\* C8: the formatted division report carries, for every section row, an
\* unformatted numeric Generated FTE next to the formatted text.
DisplayColumns ==
  {"Division", "CourseCode", "SecName", "Method", "Times", "Capacity",
   "FTECount", "Faculty", "TotalFTE", "EnrollmentPer", "GeneratedFTE"}

C8_NumericCopyKept ==
  DivisionOk =>
    \A i \in 1..Len(LastDivData) :
      LET r == Sections(report_df)[i]
      IN  \/ r.GeneratedFTE = Num(GeneratedOf(LastDivData[i]))
          \/ \E f \in DOMAIN r \ DisplayColumns : r[f] = Num(GeneratedOf(LastDivData[i]))

\* C9: stripping "$" and "," from a formatted Generated FTE and parsing it
\* gives the value rounded to 3 decimals for the rows of the division view
\* and to 2 decimals for the rows of the course view and the grand totals.
C9_FormatRoundTrip ==
  /\ DivisionOk =>
       /\ \A i \in 1..Len(LastDivData) :
            ParseCurrency(Sections(report_df)[i].GeneratedFTE).n
              = Round(GeneratedOf(LastDivData[i]), 3)
       /\ ParseCurrency(report_df[Len(report_df)].GeneratedFTE).n = Round(ret.gen, 2)
  /\ CourseOk =>
       /\ \A i \in 1..Len(LastCourseData) :
            ParseCurrency(ret.df[i].GeneratedFTE).n
              = Round(generated_fte_of(LastCourseData[i], fte_tier), 2)
       /\ ParseCurrency(ret.df[Len(ret.df)].GeneratedFTE).n = Round(ret.gen, 2)

\* C10: the division view selects exactly the rows whose division, in upper
\* case, is the requested code in upper case.
SameDivision(df, div_code) ==
  SelectSeq(df, LAMBDA r : r.div.k = "str" /\ Upper(r.div.s) = Upper(div_code))

C10_CaseInsensitiveFilter ==
  DivisionRan =>
    /\ ret.none <=> SameDivision(dean_df, key) = <<>>
    /\ ~ret.none =>
         /\ Len(Sections(ret.df)) = Len(SameDivision(dean_df, key))
         /\ ret.orig = SumTotalFte(SameDivision(dean_df, key))

\* C11: in the division, the course and the instructor view a filtered row
\* whose section name is missing never makes the call raise: a report is
\* returned.
MissingSecName(rows) == \E i \in 1..Len(rows) : ~notna(rows[i].sec)

C11_MissingSectionNameNeverRaises ==
  /\ (DivisionRan /\ MissingSecName(DivFilter(dean_df, key)))
       => (~ret.raised /\ ~ret.none)
  /\ (CourseRan /\ MissingSecName(SelectSeq(dean_df, LAMBDA r : r.course = Txt(Upper(key)))))
       => (~ret.raised /\ ~ret.none)
  /\ (FacultyRan /\ MissingSecName(SelectSeq(dean_df, LAMBDA r : r.fac = Txt(key))))
       => (~ret.raised /\ ~ret.none)

\* C12: whatever the reference file, the merged dataset has exactly one row
\* for every row of the uploaded file, with the contact hours of the matching
\* reference row or none.
SameSection(r, l) ==
  /\ r.div = l.div /\ r.sec = l.sec /\ r.fac = l.fac
  /\ r.method = l.method /\ r.cap = l.cap

C12_OneMergedRowPerRawRow ==
  file_uploaded =>
    /\ Len(dean_df) = Len(file_in)
    /\ \A i \in 1..Len(file_in) :
         Cardinality({j \in 1..Len(dean_df) : SameSection(dean_df[j], file_in[i])})
           = Cardinality({j \in 1..Len(file_in) : file_in[j] = file_in[i]})

\* C13: totalFte of a merged row is round(contactHours * 16 * fteCount / 512,
\* 3) when both are numbers and missing when either is missing or is not a
\* number; such a value fails neither the row nor the upload.
C13_TotalFteOrMissing ==
  file_uploaded =>
    /\ \A i \in 1..Len(dean_df) :
         LET r == dean_df[i]
         IN  /\ r.hours.k \in {"num", "nan"}
             /\ r.cnt.k \in {"num", "nan"}
             /\ r.tfte = IF r.hours.k = "num" /\ r.cnt.k = "num"
                         THEN Num(RoundDiv(r.hours.n * 16 * r.cnt.n, 512 * 1000))
                         ELSE NaN
             /\ \E l \in 1..Len(file_in) :
                  /\ SameSection(r, file_in[l])
                  /\ r.cnt = IF file_in[l].cnt.k = "num" THEN file_in[l].cnt ELSE NaN
             /\ \/ /\ r.hours = NaN
                   /\ r.tfte = NaN
                \/ \E m \in 1..Len(fte_file_in) :
                     /\ ExtractStrict(fte_file_in[m].sec) = r.course
                     /\ r.hours = fte_file_in[m].hours
    /\ \A l \in 1..Len(file_in) :
         \E i \in 1..Len(dean_df) : SameSection(dean_df[i], file_in[l])

C13_Witness ==
  /\ file_uploaded
  /\ \E l \in 1..Len(file_in) : file_in[l].cnt.k = "str"
  /\ \E m \in 1..Len(fte_file_in) : fte_file_in[m].hours.k = "str"
  /\ \E i \in 1..Len(dean_df) : dean_df[i].tfte.k = "num" /\ dean_df[i].tfte.n % 10 # 0
  /\ \E i \in 1..Len(dean_df) :
       dean_df[i].hours.k = "num" /\ dean_df[i].cnt.k = "nan"

RunEnd(d, i) == i = Len(d) \/ d[i + 1].course # d[i].course
RunStart(d, i) == i = 1 \/ d[i - 1].course # d[i].course
RunFirst(d, i) ==
  CHOOSE j \in 1..i : /\ \A k \in j..i : d[k].course = d[i].course
                      /\ (j = 1 \/ d[j - 1].course # d[i].course)
RunEndsBefore(d, i) == Cardinality({j \in 1..(i - 1) : RunEnd(d, j)})

RECURSIVE SumGenerated(_, _, _)
SumGenerated(d, from, to) ==
  IF from > to THEN 0 ELSE GeneratedOf(d[from]) + SumGenerated(d, from + 1, to)

\* C15: in a division table every run of rows with the same course code is
\* followed, right after its last section row, by exactly one "Total" row
\* whose Generated FTE is the sum over the rows of that run; there is no
\* other "Total" row.
C15_OneTotalPerRun ==
  DivisionOk =>
    LET d == LastDivData
    IN  /\ Len(ret.df) = Len(d) + Cardinality({i \in 1..Len(d) : RunEnd(d, i)})
        /\ \A i \in 1..Len(d) :
             LET p == i + RunEndsBefore(d, i)
             IN  /\ p <= Len(ret.df)
                 /\ IsSectionRow(ret.df[p])
                 /\ ret.df[p].SecName = d[i].sec
                 /\ RunEnd(d, i) =>
                      /\ p + 1 <= Len(ret.df)
                      /\ ret.df[p + 1].CourseCode = Txt(TotalLabel)
                      /\ ret.df[p + 1].GeneratedFTE
                           = Num(SumGenerated(d, RunFirst(d, i), i))

\* C16: in a division table the first section row of a run shows the course
\* code and the later ones show none; the first section row of the table
\* shows the division code and the later ones show a blank.
C16_LabelsOnFirstRowOnly ==
  DivisionOk =>
    LET d == LastDivData
        s == Sections(ret.df)
    IN  /\ Len(s) = Len(d)
        /\ \A i \in 1..Len(d) :
             /\ s[i].SecName = d[i].sec
             /\ IF RunStart(d, i) THEN s[i].CourseCode = d[i].course
                ELSE IsAbsent(s[i].CourseCode)
             /\ s[i].Division = IF i = 1 THEN Txt(Upper(key)) ELSE Blank

C16_Witness ==
  /\ DivisionOk
  /\ Len(LastDivData) >= 2
  /\ LastDivData[1].course.k = "str"
  /\ LastDivData[2].course = LastDivData[1].course
  /\ Sections(ret.df)[2].CourseCode = Blank
  /\ Sections(ret.df)[2].Division = Blank

\* the rows of the requested course, and those that are the first of their
\* section name
CourseRows ==SelectSeq(dean_df, LAMBDA r : r.course = Txt(Upper(key)))
FirstOfSection(f, i) == \A j \in 1..(i - 1) : f[j].sec # f[i].sec

FirstRows(f) == {i \in 1..Len(f) : FirstOfSection(f, i)}

\* the multiplier the tier table stores under the first three characters of
\* a section name, 0 when it stores none
TierMultiplier(row) ==
  LET p == IF row.sec.k = "str"
           THEN SubSeq(row.sec.s, 1, IF Len(row.sec.s) < 3 THEN Len(row.sec.s) ELSE 3)
           ELSE <<>>
      hit == {j \in 1..Len(fte_tier) : fte_tier[j].prefix = Txt(p)}
  IN  IF hit = {} THEN 0 ELSE fte_tier[CHOOSE j \in hit : TRUE].new_sector.n \div 1000

\* totalFte * (m + 1926), a missing totalFte counting as 0
ExpectedGenerated(row) ==
  (IF row.tfte.k = "num" THEN row.tfte.n ELSE 0) * (TierMultiplier(row) + 1926)

RECURSIVE SumFirstTotal(_, _)
SumFirstTotal(f, i) ==
  IF i > Len(f) THEN 0
  ELSE (IF FirstOfSection(f, i) /\ f[i].tfte.k = "num" THEN f[i].tfte.n ELSE 0)
       + SumFirstTotal(f, i + 1)

RECURSIVE SumFirstGenerated(_, _)
SumFirstGenerated(f, i) ==
  IF i > Len(f) THEN 0
  ELSE (IF FirstOfSection(f, i) THEN ExpectedGenerated(f[i]) ELSE 0)
       + SumFirstGenerated(f, i + 1)

\* C17: the course view keeps, for every section name among the rows of the
\* course, the first row that carries it and no other: one section row per
\* section name, built from that first row, and totals over those rows only.
C17_FirstOccurrenceWins ==
  CourseOk =>
    LET f == CourseRows
        n == Len(ret.df) - 1
    IN  /\ n = Cardinality({f[i].sec : i \in 1..Len(f)})
        /\ \A k \in 1..n :
             /\ \E i \in FirstRows(f) :
                  /\ ret.df[k].SecName = f[i].sec
                  /\ ret.df[k].Faculty = f[i].fac
                  /\ ret.df[k].Capacity = f[i].cap
                  /\ ret.df[k].GeneratedFTE = Txt(Currency(ExpectedGenerated(f[i]), 2))
             /\ \A m \in 1..n : m # k => ret.df[m].SecName # ret.df[k].SecName
        /\ ret.orig = SumFirstTotal(f, 1)
        /\ ret.gen = SumFirstGenerated(f, 1)

C17_Witness ==
  /\ CourseOk
  /\ ret.gen > 0
  /\ \E i, j \in 1..Len(CourseRows) :
       /\ i < j
       /\ CourseRows[i].sec = CourseRows[j].sec
       /\ CourseRows[i].fac # CourseRows[j].fac
       /\ CourseRows[j].tfte.k = "num"
       /\ CourseRows[j].tfte.n > 0

RECURSIVE SumExpected(_)
SumExpected(rows) ==
  IF rows = <<>> THEN 0 ELSE ExpectedGenerated(Head(rows)) + SumExpected(Tail(rows))

\* C18: in the division and the course view the generated FTE of a section
\* is totalFte * (m + 1926), m the multiplier the tier table stores under the
\* first three characters of the section name and 0 when it stores none; a
\* tier row without key is never used.  The division table shows the value
\* with two decimals, the course table as currency; the generated totals are
\* the sums of the values.
C18_GeneratedFteFormula ==
  /\ DivisionOk =>
       /\ \A i \in 1..Len(LastDivData) :
            Sections(ret.df)[i].GeneratedFTE
              = Txt(FormatFixed(ExpectedGenerated(LastDivData[i]), 2, FALSE))
       /\ ret.gen = SumExpected(LastDivData)
  /\ CourseOk =>
       /\ \A i \in 1..Len(LastCourseData) :
            ret.df[i].GeneratedFTE
              = Txt(Currency(ExpectedGenerated(LastCourseData[i]), 2))
       /\ ret.gen = SumExpected(LastCourseData)

C18_Witness ==
  /\ DivisionOk
  /\ \E j \in 1..Len(fte_tier) : fte_tier[j].prefix = NaN
  /\ \E i \in 1..Len(LastDivData) :
       TierMultiplier(LastDivData[i]) > 0 /\ LastDivData[i].tfte.k = "num"
         /\ LastDivData[i].tfte.n > 0
  /\ \E i \in 1..Len(LastDivData) :
       TierMultiplier(LastDivData[i]) = 0 /\ LastDivData[i].tfte.k = "num"
         /\ LastDivData[i].tfte.n > 0

\* the number of "Total" rows above the i-th section row of a division table
GroupOf(df, i) ==
  LET p == CHOOSE q \in 1..Len(df) :
             /\ IsSectionRow(df[q])
             /\ Cardinality({x \in 1..q : IsSectionRow(df[x])}) = i
  IN  Cardinality({x \in 1..p : ~IsSectionRow(df[x])})

\* C19: the course code the division view derives from a section name is
\* the first match of [A-Z]{3}-\d{3}, the code the merge derives; two rows
\* are in the same group of the division table exactly when the merge gives
\* them the same course code.
C19_SameCourseCodeAsMerger ==
  DivisionOk =>
    LET d == LastDivData
    IN  /\ \A i \in 1..Len(d) : d[i].course = ExtractStrict(d[i].sec)
        /\ \A i, j \in 1..Len(d) :
             (GroupOf(ret.df, i) = GroupOf(ret.df, j))
               <=> (ExtractStrict(d[i].sec) = ExtractStrict(d[j].sec))

\* C20: the number of "Total" rows of a division table is the number of
\* different course codes among the rows of the division, the rows without
\* course code counting as one.
C20_TotalsCountCourseCodes ==
  DivisionOk =>
    Len(Subtotals(ret.df))
      = Cardinality({LastDivData[i].course : i \in 1..Len(LastDivData)})

====
